---------------------------- MODULE Spec2Model ----------------------------
(***************************************************************************)
(* Model of the cell extrusion operator of unstructured_grids              *)
(* (src/ug_op_extrude.py): UG_OT_ExtrudeCells.execute, initialize_extrusion *)
(* and extrude_cells with its nested cast_vertices, create_faces,          *)
(* calculate_extrusion_dir_and_coeffs and                                  *)
(* point_neighbour_cell_to_internal_face.                                  *)
(*                                                                         *)
(* Conventions.  Python indices are 0-based, the sequences here are        *)
(* 1-based: mesh vertex, mesh face, UGFace and UGCell number k of the      *)
(* source is position k+1 here.  A mesh face is its vertex loop and its    *)
(* selection flag; an edge of a face is a pair of consecutive loop         *)
(* vertices, and two faces have the same edge when the pairs have the same *)
(* two vertices (a BMEdge is unique per vertex pair).  Coordinates are     *)
(* symbolic: a cast vertex records the vertex it was cast from, the        *)
(* extrusion length and the direction; a direction is the set of vertex    *)
(* loops of the faces whose normals were averaged (the normal of a face is *)
(* a function of its loop, vertex coordinates never change).  The          *)
(* orientation test of a new side face (lines 338-348) depends on          *)
(* coordinates; normal_flip reverses a loop and changes neither the vertex *)
(* set nor any link, so a side face keeps the loop it was created with.    *)
(***************************************************************************)
EXTENDS Integers, Sequences, FiniteSets, TLC

\* Bounds of the model.
MaxLayers == 3      \* extrusion_layers is drawn from 1..MaxLayers
MaxRuns == 2        \* invocations of the operator
MaxCells == 4       \* an invocation starts only if its cells fit under this cap
MaxSel == 2         \* faces the user selects by hand before a later invocation
InitialThickness == 1  \* extrusion_thickness when the model starts

\* Python's None, as the owner or neighbour of a UGFace (cells are 1, 2, ...).
None == 0

--------------------------------------------------------------------------
\* Helpers on sequences.
SeqToSet(s) == {s[k] : k \in 1..Len(s)}

Reverse(s) == [k \in 1..Len(s) |-> s[Len(s) + 1 - k]]

RECURSIVE SetToSortedSeq(_)
SetToSortedSeq(S) ==
  IF S = {} THEN <<>>
  ELSE LET m == CHOOSE x \in S : \A y \in S : x <= y
       IN <<m>> \o SetToSortedSeq(S \ {m})

EmptyMap == [k \in {} |-> {}]

--------------------------------------------------------------------------
\* The thickness-scaling expressions the user may have typed, and eval + float
\* on each: "x*2" doubles, "x*" is a syntax error, "None" evaluates but float()
\* rejects the value.
Expressions == {"x*2", "x*", "None"}

Eval(expr, x) ==
  CASE expr = "x*2" -> [ok |-> TRUE, val |-> x * 2]
    [] expr = "None" -> [ok |-> FALSE, val |-> 0]
    [] OTHER -> [ok |-> FALSE, val |-> 0]

\* Mutant: the assignment is made whether or not the evaluation succeeded.
ThicknessAfterUnguarded(expr, x) == Eval(expr, x).val

\* cast_vertices, lines 237-245: the thickness after a layer cast with length x.
ThicknessAfter(expr, x) ==
  LET r == Eval(expr, x) IN IF r.ok THEN r.val ELSE x

--------------------------------------------------------------------------
\* Source objects the operator may be started on when no grid exists.
SeedCo == [base |-> None, len |-> 0, dir |-> {}]

MkFace(vs, sel) == [verts |-> vs, select |-> sel]

Sources ==
  { [name |-> "quad", isug |-> FALSE, nverts |-> 4,
     faces |-> << MkFace(<<1, 2, 3, 4>>, TRUE) >>],
    [name |-> "twoquads", isug |-> FALSE, nverts |-> 6,
     faces |-> << MkFace(<<1, 2, 3, 4>>, TRUE), MkFace(<<2, 5, 6, 3>>, TRUE) >>],
    [name |-> "quadtri", isug |-> FALSE, nverts |-> 5,
     faces |-> << MkFace(<<1, 2, 3, 4>>, FALSE), MkFace(<<2, 5, 3>>, TRUE) >>],
    [name |-> "unselected", isug |-> FALSE, nverts |-> 4,
     faces |-> << MkFace(<<1, 2, 3, 4>>, FALSE) >>],
    [name |-> "ugobject", isug |-> TRUE, nverts |-> 4,
     faces |-> << MkFace(<<1, 2, 3, 4>>, TRUE) >>] }

VARIABLES
  source,       \* the active object the first invocation starts from
  props,        \* scene.ug_props: layers, thickness, fixed, ignore, expr
  bm,           \* mesh of the UG object: verts (coordinates), faces
  ugverts,      \* ug.ugverts: the index each UGVertex was created with
  ugfaces,      \* ug.ugfaces: owner, neighbour, deleted, bi
  ugcells,      \* ug.ugcells: the faces registered with each cell
  pc,           \* "idle" or "loop" (inside execute's layer loop)
  i,            \* layers done in this invocation
  n,            \* execute's new cell count
  vdir,         \* execute's direction dictionary
  initial_faces,\* execute's initial_faces (UGFace numbers)
  report,       \* what this invocation reported
  runs,         \* invocations so far
  lens,         \* history: extrude_len of each layer of this invocation
  last          \* history: what the last call of extrude_cells saw and did

vars == <<source, props, bm, ugverts, ugfaces, ugcells, pc, i, n, vdir,
          initial_faces, report, runs, lens, last>>


--------------------------------------------------------------------------
\* ug.exists_ug_state(): a grid exists once it has cells.
exists_ug_state == Len(ugcells) > 0

\* A new UGFace: no owner, no neighbour, not deleted (bi is set by the caller).
UGFace(bi) == [owner |-> None, neighbour |-> None, deleted |-> FALSE, bi |-> bi]

\* ug.get_ugface_from_face_index(fi): the number of the UGFace of mesh face fi.
get_ugface_from_face_index(ugf, fi) ==
  CHOOSE j \in 1..Len(ugf) : ugf[j].bi = fi

\* UGCell.add_face_info(face): the face joins the cell's face set.
add_face_info(cells, c, uf) == [cells EXCEPT ![c] = @ \cup {uf}]

\* UGFace.invert_face_dir(): owner and neighbour change places.
invert_face_dir(uf) == [uf EXCEPT !.owner = uf.neighbour, !.neighbour = uf.owner]

--------------------------------------------------------------------------
\* initialize_extrusion, lines 90-105: the mesh left after the unselected faces
\* and then the vertices in no face are deleted; the survivors are renumbered
\* in order.
DeleteUnselected(src) ==
  LET kept == SelectSeq(src.faces, LAMBDA f : f.select)
      used == UNION {SeqToSet(kept[k].verts) : k \in 1..Len(kept)}
      rank(v) == Cardinality({u \in used : u <= v})
  IN [verts |-> [k \in 1..Cardinality(used) |-> SeedCo],
      faces |-> [k \in 1..Len(kept) |->
                   MkFace([j \in 1..Len(kept[k].verts) |-> rank(kept[k].verts[j])],
                          TRUE)]]

\* initialize_extrusion, lines 65-133.  The result: ok, the initial faces, and
\* the mesh and the UG lists after it.
initialize_extrusion ==
  LET same == [ok |-> TRUE, initial |-> <<>>, bm |-> bm,
               ugverts |-> ugverts, ugfaces |-> ugfaces]
      left == DeleteUnselected(source)
  IN IF exists_ug_state THEN same
     ELSE IF source.isug THEN [same EXCEPT !.ok = FALSE]
     ELSE IF Len(left.faces) = 0 THEN [same EXCEPT !.ok = FALSE]
     ELSE [ok |-> TRUE,
           initial |-> [k \in 1..Len(left.faces) |-> k],
           bm |-> left,
           ugverts |-> [k \in 1..Len(left.verts) |-> k],
           ugfaces |-> [k \in 1..Len(left.faces) |-> UGFace(k)]]

--------------------------------------------------------------------------
\* extrude_cells, line 150: the selected faces, in mesh order.
SelectedFaces(mesh) ==
  SetToSortedSeq({k \in 1..Len(mesh.faces) : mesh.faces[k].select})

\* v.link_faces: the mesh faces vertex v is part of.
link_faces(mesh, v) ==
  {k \in 1..Len(mesh.faces) : v \in SeqToSet(mesh.faces[k].verts)}

\* calculate_extrusion_dir_and_coeffs, lines 171-182: the faces whose normals
\* are summed for vertex v.
Qualifying(mesh, ugf, v, ignore) ==
  {f \in link_faces(mesh, v) :
     LET uf == ugf[get_ugface_from_face_index(ugf, f)]
     IN /\ ~uf.deleted
        /\ uf.neighbour = None
        /\ (ignore => mesh.faces[f].select)}

\* Mutant: a zero count is not an error (the sum is returned undivided).
DivisionRaisesNever(cnt) == FALSE

\* Line 183: vec / float(n) raises ZeroDivisionError when n is 0.
DivisionRaises(cnt) == cnt = 0

\* calculate_extrusion_dir_and_coeffs, lines 154-188: raised, or the direction
\* of each vertex (the averaged normals, named by the loops of their faces).
calculate_extrusion_dir_and_coeffs(mesh, ugf, verts, ignore) ==
  LET q(v) == Qualifying(mesh, ugf, v, ignore)
  IN [raised |-> \E k \in 1..Len(verts) : DivisionRaises(Cardinality(q(verts[k]))),
      vdir |-> [v \in SeqToSet(verts) |-> {mesh.faces[f].verts : f \in q(v)}]]

\* cast_vertices, lines 206-211: the distinct vertices of the faces, in order of
\* first appearance.
RECURSIVE Distinct(_, _)
Distinct(s, acc) ==
  IF s = <<>> THEN acc
  ELSE Distinct(Tail(s),
                IF Head(s) \in SeqToSet(acc) THEN acc ELSE Append(acc, Head(s)))

RECURSIVE Concat(_)
Concat(ss) == IF ss = <<>> THEN <<>> ELSE Head(ss) \o Concat(Tail(ss))

OrigVerts(mesh, faces) ==
  Distinct(Concat([k \in 1..Len(faces) |-> mesh.faces[faces[k]].verts]), <<>>)

PositionIn(s, x) == CHOOSE k \in 1..Len(s) : s[k] = x

\* Mutant: the saved direction is keyed by the vertex it was cast from.
SaveKeyOld(v, ind) == v

\* Line 232: the saved direction is keyed by ind, the index of the new vertex.
SaveKey(v, ind) == ind

\* Lines 220-223: the direction a vertex is cast along.
VertDir(v, prior, new_vdir, fixed) ==
  IF fixed /\ v \in DOMAIN prior THEN prior[v] ELSE new_vdir[v]

\* cast_vertices, lines 217-247, with the original vertices (orig) and the
\* outcome of line 215 (calc) at hand.
CastFrom(mesh, ugv, prior, p, orig, calc) ==
  LET ind0 == Len(mesh.verts)
      extrude_len == p.thickness
      dirs == [k \in 1..Len(orig) |-> VertDir(orig[k], prior, calc.vdir, p.fixed)]
      keyOf == [k \in 1..Len(orig) |-> SaveKey(orig[k], ind0 + k)]
  IN IF calc.raised
     THEN [raised |-> TRUE, bm |-> mesh, ugverts |-> ugv, vert_map |-> EmptyMap,
           save_vdir |-> EmptyMap, fresh |-> EmptyMap, orig |-> orig,
           thickness |-> p.thickness, len |-> extrude_len]
     ELSE [raised |-> FALSE,
           bm |-> [mesh EXCEPT !.verts = mesh.verts \o
                     [k \in 1..Len(orig) |->
                        [base |-> orig[k], len |-> extrude_len, dir |-> dirs[k]]]],
           ugverts |-> ugv \o [k \in 1..Len(orig) |-> ind0 + k],
           vert_map |-> [v \in SeqToSet(orig) |-> ind0 + PositionIn(orig, v)],
           save_vdir |-> [key \in SeqToSet(keyOf) |-> dirs[PositionIn(keyOf, key)]],
           fresh |-> calc.vdir,
           orig |-> orig,
           thickness |-> ThicknessAfter(p.expr, extrude_len),
           len |-> extrude_len]

\* cast_vertices, lines 191-247.  The direction dictionary is computed for all
\* vertices (line 215) before the first vertex is cast (line 219), so a raise
\* leaves the mesh as it was.
CastOrig(mesh, ugv, ugf, prior, p, orig) ==
  CastFrom(mesh, ugv, prior, p, orig,
           calculate_extrusion_dir_and_coeffs(mesh, ugf, orig, p.ignore))

cast_vertices(mesh, ugv, ugf, faces, prior, p) ==
  CastOrig(mesh, ugv, ugf, prior, p, OrigVerts(mesh, faces))

--------------------------------------------------------------------------
\* f.edges with e.verts: the pairs of consecutive vertices of a loop.
Edges(vs) == [k \in 1..Len(vs) |-> <<vs[k], vs[(k % Len(vs)) + 1]>>]

EdgeKey(e) == {e[1], e[2]}

\* Mutant: no edge is recognised as processed.
IsProcessedNever(e, processed) == FALSE

\* create_faces, line 321: e in processed_edges.
IsProcessed(e, processed) == EdgeKey(e) \in processed

\* Lines 261-263 and 329-331: the loop of the side face over edge e.
SideVerts(e, vert_map) == <<e[1], vert_map[e[1]], vert_map[e[2]], e[2]>>

\* point_neighbour_cell_to_internal_face, lines 266-278: the first mesh face
\* after nf0 that holds all of verts; 0 when there is none (found = False).
FindExtrudedFace(faces, verts, nf0) ==
  LET hits == {k \in (nf0 + 1)..Len(faces) :
                 SeqToSet(verts) \subseteq SeqToSet(faces[k].verts)}
  IN IF hits = {} THEN 0 ELSE CHOOSE k \in hits : \A j \in hits : k <= j

\* Mutant: the face found is added to the cell but its neighbour is not set.
PointNeighbourUnlinked(st, e, nc, nf0, vert_map) ==
  LET fi == FindExtrudedFace(st.faces, SideVerts(e, vert_map), nf0)
      old_face == get_ugface_from_face_index(st.ugfaces, fi)
  IN IF fi = 0 THEN [st EXCEPT !.ok = FALSE]
     ELSE [st EXCEPT !.ugcells = add_face_info(@, nc, old_face),
                     !.calls = Append(@, <<nc, old_face>>)]

\* point_neighbour_cell_to_internal_face, lines 251-292.  st is the state
\* create_faces works on; st.ok becomes FALSE where the function returns False.
point_neighbour_cell_to_internal_face(st, e, nc, nf0, vert_map) ==
  LET fi == FindExtrudedFace(st.faces, SideVerts(e, vert_map), nf0)
      old_face == get_ugface_from_face_index(st.ugfaces, fi)
  IN IF fi = 0 THEN [st EXCEPT !.ok = FALSE]
     ELSE [st EXCEPT !.ugfaces[old_face].neighbour = nc,
                     !.ugcells = add_face_info(@, nc, old_face),
                     !.calls = Append(@, <<nc, old_face>>)]

\* create_faces, lines 328-358: a new side face over edge e, owned by cell nc.
NewSideFace(st, e, nc, vert_map) ==
  LET bi == Len(st.faces) + 1
      uf == Len(st.ugfaces) + 1
  IN [st EXCEPT !.processed = @ \cup {EdgeKey(e)},
                !.faces = Append(@, MkFace(SideVerts(e, vert_map), FALSE)),
                !.ugfaces = Append(@, [UGFace(bi) EXCEPT !.owner = nc]),
                !.newfaces = Append(@, uf),
                !.ugcells = add_face_info(@, nc, uf),
                !.calls = Append(@, <<nc, uf>>),
                !.nf = @ + 1]

\* create_faces, lines 319-358: the edges of one base face from the k-th on.
RECURSIVE ExtrudeEdges(_, _, _, _, _, _)
ExtrudeEdges(st, edges, k, nc, nf0, vert_map) ==
  IF k > Len(edges) \/ ~st.ok THEN st
  ELSE ExtrudeEdges(
         IF IsProcessed(edges[k], st.processed)
         THEN point_neighbour_cell_to_internal_face(st, edges[k], nc, nf0, vert_map)
         ELSE NewSideFace(st, edges[k], nc, vert_map),
         edges, k + 1, nc, nf0, vert_map)

\* Mutant: the base face gets its neighbour but is not added to the cell.
LinkBaseFaceUnregistered(st, f, nc) ==
  [st EXCEPT !.ugfaces[get_ugface_from_face_index(st.ugfaces, f)].neighbour = nc]

\* create_faces, lines 360-367: the base face gets the new cell as neighbour
\* and is added to the cell.
LinkBaseFace(st, f, nc) ==
  LET orig_face == get_ugface_from_face_index(st.ugfaces, f)
  IN [st EXCEPT !.ugfaces[orig_face].neighbour = nc,
                !.ugcells = add_face_info(@, nc, orig_face),
                !.calls = Append(@, <<nc, orig_face>>)]

\* create_faces, lines 369-390: the top face, owned by the new cell; the base
\* face is deselected and the top face selected.
NewTopFace(st, f, nc, vert_map) ==
  LET bi == Len(st.faces) + 1
      uf == Len(st.ugfaces) + 1
      base == st.faces[f].verts
      topverts == [k \in 1..Len(base) |-> vert_map[base[k]]]
  IN [st EXCEPT !.faces = Append([@ EXCEPT ![f].select = FALSE],
                                 MkFace(topverts, TRUE)),
                !.ugfaces = Append(@, [UGFace(bi) EXCEPT !.owner = nc]),
                !.newfaces = Append(@, uf),
                !.ugcells = add_face_info(@, nc, uf),
                !.calls = Append(@, <<nc, uf>>),
                !.nf = @ + 1]

\* create_faces, lines 314-391: the k-th and later base faces; cell nc0 + k is
\* the cell of the k-th.  A failed lookup ends the function at once (line 324).
RECURSIVE ExtrudeFaces(_, _, _, _, _, _)
ExtrudeFaces(st, faces, k, nc0, nf0, vert_map) ==
  IF k > Len(faces) \/ ~st.ok THEN st
  ELSE LET f == faces[k]
           nc == nc0 + k
           sides == ExtrudeEdges(st, Edges(st.faces[f].verts), 1, nc, nf0, vert_map)
       IN IF ~sides.ok THEN sides
          ELSE ExtrudeFaces(NewTopFace(LinkBaseFace(sides, f, nc), f, nc, vert_map),
                            faces, k + 1, nc0, nf0, vert_map)

\* create_faces, lines 294-394.
create_faces(mesh, ugf, cells, faces, vert_map) ==
  ExtrudeFaces([faces |-> mesh.faces, ugfaces |-> ugf,
                ugcells |-> cells \o [k \in 1..Len(faces) |-> {}],
                processed |-> {}, newfaces |-> <<>>, nf |-> 0, calls |-> <<>>,
                ok |-> TRUE],
               faces, 1, Len(cells), Len(mesh.faces), vert_map)

\* Mutant: the initial faces are left as they are.
FlipInitialFacesSkipped(st, initial) == st

\* extrude_cells, lines 398-404: every initial face is flipped in the mesh and
\* its UGFace inverted.
FlipInitialFaces(st, initial) ==
  LET flipped(f) == \E k \in 1..Len(initial) : st.ugfaces[initial[k]].bi = f
  IN IF ~st.ok THEN st ELSE
     [st EXCEPT
        !.faces = [f \in 1..Len(st.faces) |->
                     IF flipped(f)
                     THEN [st.faces[f] EXCEPT !.verts = Reverse(@)]
                     ELSE st.faces[f]],
        !.ugfaces = [u \in 1..Len(st.ugfaces) |->
                       IF u \in SeqToSet(initial)
                       THEN invert_face_dir(st.ugfaces[u])
                       ELSE st.ugfaces[u]]]

\* Mutant: the count returned is the number of faces created.
NewCellCountOfFaces(faces, nf) == nf

\* extrude_cells, line 415: the count returned is len(faces).
NewCellCount(faces, nf) == Len(faces)

\* extrude_cells, lines 396-415, with the outcome of cast_vertices (cv) and
\* that of create_faces after the inversion of the initial faces (cf) at hand.
FinishLayer(initial, prior, faces, cv, cf) ==
  IF ~cf.ok
  THEN [raised |-> TRUE, cv |-> cv, faces |-> faces,
        bm |-> [cv.bm EXCEPT !.faces = cf.faces],
        ugverts |-> cv.ugverts, ugfaces |-> cf.ugfaces, ugcells |-> cf.ugcells,
        thickness |-> cv.thickness, ret |-> 0, vdir |-> prior,
        calls |-> cf.calls, newfaces |-> cf.newfaces]
  ELSE [raised |-> FALSE, cv |-> cv, faces |-> faces,
        bm |-> [cv.bm EXCEPT !.faces = cf.faces],
        ugverts |-> cv.ugverts, ugfaces |-> cf.ugfaces, ugcells |-> cf.ugcells,
        thickness |-> cv.thickness, ret |-> NewCellCount(faces, cf.nf),
        vdir |-> cv.save_vdir, calls |-> cf.calls, newfaces |-> cf.newfaces]

\* extrude_cells, lines 249-404, with the outcome of cast_vertices at hand.
BuildLayer(initial, prior, faces, cv) ==
  IF cv.raised
  THEN [raised |-> TRUE, cv |-> cv, faces |-> faces, bm |-> bm,
        ugverts |-> ugverts, ugfaces |-> ugfaces, ugcells |-> ugcells,
        thickness |-> props.thickness, ret |-> 0, vdir |-> prior,
        calls |-> <<>>, newfaces |-> <<>>]
  ELSE FinishLayer(initial, prior, faces, cv,
                   FlipInitialFaces(
                     create_faces(cv.bm, ugfaces, ugcells, faces, cv.vert_map),
                     initial))

\* extrude_cells, lines 136-415.  raised: an exception left the function (the
\* division of line 183, or line 399 on the None that create_faces returns
\* after a failed lookup).
ExtrudeFront(initial, prior, faces) ==
  BuildLayer(initial, prior, faces,
             cast_vertices(bm, ugverts, ugfaces, faces, prior, props))

extrude_cells(initial, prior) == ExtrudeFront(initial, prior, SelectedFaces(bm))

--------------------------------------------------------------------------
\* The history record before any layer of an invocation.
NoLayer ==
  [active |-> FALSE, k |-> 0, front |-> <<>>, seeds |-> <<>>,
   nv0 |-> 0, nf0 |-> 0, nc0 |-> 0, ugv0 |-> 0, ugfaces0 |-> <<>>,
   prior |-> EmptyMap, fresh |-> EmptyMap, orig |-> <<>>, vmap |-> EmptyMap,
   degen |-> {}, calls |-> <<>>, newfaces |-> <<>>, raised |-> FALSE,
   ret |-> 0, len |-> 0]

NoMesh == [verts |-> <<>>, faces |-> <<>>]

\* The property values the model starts from.  Props varies the policy on
\* unselected face normals, PropsThickness the thickness-scaling expression,
\* PropsDirections the policy on fixed initial directions.
Props ==
  [layers : 1..MaxLayers, thickness : {InitialThickness},
   fixed : {FALSE}, ignore : BOOLEAN, expr : {"x*2"}]

PropsThickness ==
  [layers : 1..MaxLayers, thickness : {InitialThickness},
   fixed : {FALSE}, ignore : {FALSE}, expr : Expressions]

PropsDirections ==
  [layers : 1..MaxLayers, thickness : {InitialThickness},
   fixed : BOOLEAN, ignore : BOOLEAN, expr : {"x*2"}]

\* The state before the operator is first invoked: no grid.
Start ==
  /\ source \in Sources
  /\ bm = NoMesh
  /\ ugverts = <<>>
  /\ ugfaces = <<>>
  /\ ugcells = <<>>
  /\ pc = "idle"
  /\ i = 0
  /\ n = 0
  /\ vdir = EmptyMap
  /\ initial_faces = <<>>
  /\ report = "none"
  /\ runs = 0
  /\ lens = <<>>
  /\ last = NoLayer

Init == Start /\ props \in Props

InitThickness == Start /\ props \in PropsThickness

InitDirections == Start /\ props \in PropsDirections

RECURSIVE SubsetsUpTo(_, _)
SubsetsUpTo(S, m) ==
  IF m = 0 THEN {{}}
  ELSE LET prev == SubsetsUpTo(S, m - 1)
       IN prev \cup {T \cup {x} : T \in prev, x \in S}

\* The face selections the operator may be invoked with: that of the source
\* object when no grid exists; on a grid, the selection the last invocation
\* left or one the user made by hand since.
Selections ==
  IF exists_ug_state
  THEN {SeqToSet(SelectedFaces(bm))} \cup SubsetsUpTo(1..Len(bm.faces), MaxSel)
  ELSE {{f \in 1..Len(source.faces) : source.faces[f].select}}

Fits(nfaces) == Len(ugcells) + props.layers * nfaces <= MaxCells

WithSelection(mesh, S) ==
  [mesh EXCEPT !.faces =
     [f \in 1..Len(mesh.faces) |-> [mesh.faces[f] EXCEPT !.select = f \in S]]]

\* UG_OT_ExtrudeCells.execute, lines 39-51: the operator is invoked, with
\* the faces S selected.
ExecuteBegin ==
  /\ pc = "idle"
  /\ runs < MaxRuns
  /\ runs' = runs + 1
  /\ \E S \in Selections :
       /\ Fits(Cardinality(S))
       /\ LET init == initialize_extrusion
          IN IF ~init.ok
             THEN /\ report' = "ERROR: Initialization failed"
                  /\ pc' = "idle"
                  /\ UNCHANGED <<bm, ugverts, ugfaces, initial_faces>>
             ELSE /\ report' = "none"
                  /\ pc' = "loop"
                  /\ bm' = IF exists_ug_state THEN WithSelection(bm, S) ELSE init.bm
                  /\ ugverts' = init.ugverts
                  /\ ugfaces' = init.ugfaces
                  /\ initial_faces' = init.initial
  /\ i' = 0
  /\ n' = 0
  /\ vdir' = EmptyMap
  /\ lens' = <<>>
  /\ last' = NoLayer
  /\ UNCHANGED <<source, props, ugcells>>

\* Mutant: the zero test never fires.
ZeroCellsNever(count) == FALSE

\* execute, line 57.
ZeroCells(count) == count = 0

\* execute, lines 53-59: one pass of the layer loop.
ExtrudeLayer ==
  /\ pc = "loop"
  /\ i < props.layers
  /\ \E r \in {extrude_cells(initial_faces, vdir)} :
     LET total == n + r.ret
     IN /\ bm' = r.bm
        /\ ugverts' = r.ugverts
        /\ ugfaces' = r.ugfaces
        /\ ugcells' = r.ugcells
        /\ props' = [props EXCEPT !.thickness = r.thickness]
        /\ lens' = Append(lens, r.cv.len)
        /\ last' = [active |-> TRUE, k |-> i + 1, front |-> r.faces,
                    seeds |-> initial_faces,
                    nv0 |-> Len(bm.verts), nf0 |-> Len(bm.faces),
                    nc0 |-> Len(ugcells), ugv0 |-> Len(ugverts),
                    ugfaces0 |-> ugfaces,
                    prior |-> vdir, fresh |-> r.cv.fresh, orig |-> r.cv.orig,
                    vmap |-> r.cv.vert_map,
                    degen |-> {v \in SeqToSet(r.cv.orig) :
                                 Qualifying(bm, ugfaces, v, props.ignore) = {}},
                    calls |-> r.calls, newfaces |-> r.newfaces,
                    raised |-> r.raised, ret |-> r.ret, len |-> r.cv.len]
        /\ IF r.raised
           THEN /\ report' = "exception"
                /\ pc' = "idle"
                /\ UNCHANGED <<i, n, vdir, initial_faces>>
           ELSE /\ n' = total
                /\ vdir' = r.vdir
                /\ initial_faces' = <<>>
                /\ IF ZeroCells(total)
                   THEN /\ report' = "ERROR: No object"
                        /\ pc' = "idle"
                        /\ i' = i
                   ELSE /\ report' = report
                        /\ pc' = "loop"
                        /\ i' = i + 1
  /\ UNCHANGED <<source, runs>>

\* execute, lines 61-62: the loop is over, the total is reported.
ExecuteEnd ==
  /\ pc = "loop"
  /\ i = props.layers
  /\ report' = "INFO: Extruded new cells"
  /\ pc' = "idle"
  /\ UNCHANGED <<source, props, bm, ugverts, ugfaces, ugcells, i, n, vdir,
                 initial_faces, runs, lens, last>>

Next == ExecuteBegin \/ ExtrudeLayer \/ ExecuteEnd

Spec == Init /\ [][Next]_vars

SpecThickness == InitThickness /\ [][Next]_vars

SpecDirections == InitDirections /\ [][Next]_vars

--------------------------------------------------------------------------
\* Vocabulary of the properties.  While last.active holds, the mesh and the UG
\* lists are as the last call of extrude_cells left them.

\* The last call of extrude_cells returned.
LayerDone == last.active /\ ~last.raised

NumFront == Len(last.front)

\* The cell extruded from the k-th front face.
CellOf(k) == last.nc0 + k

\* The vertex loop of the k-th front face.
FrontLoop(k) == bm.faces[last.front[k]].verts

FrontEdges(k) == {EdgeKey(Edges(FrontLoop(k))[j]) : j \in 1..Len(FrontLoop(k))}

AllFrontEdges == UNION {FrontEdges(k) : k \in 1..NumFront}

\* The front faces an edge belongs to, as positions in the front.
Sharers(edge) == {k \in 1..NumFront : edge \in FrontEdges(k)}

IsShared(edge) == Cardinality(Sharers(edge)) >= 2

SharedEdges == {edge \in AllFrontEdges : IsShared(edge)}

\* Each edge is shared by at most two front faces.
FrontIsManifold == \A edge \in AllFrontEdges : Cardinality(Sharers(edge)) <= 2

\* The mesh faces and the vertices created by the last call.
NewFaces == (last.nf0 + 1)..Len(bm.faces)

NewVerts == (last.nv0 + 1)..Len(bm.verts)

VertSet(f) == SeqToSet(bm.faces[f].verts)

TopFaces == {f \in NewFaces : VertSet(f) \subseteq NewVerts}

SideFaces == NewFaces \ TopFaces

\* The new faces over an edge: those with the vertices e0, new(e0), new(e1), e1.
SideFacesOver(edge) ==
  {f \in NewFaces : VertSet(f) = edge \cup {last.vmap[v] : v \in edge}}

UgOf(f) == ugfaces[get_ugface_from_face_index(ugfaces, f)]

OwnerBefore(f) ==
  last.ugfaces0[get_ugface_from_face_index(last.ugfaces0, f)].owner

\* C1: in a layer over a front whose edges are each shared by at most two
\* front faces, every edge shared by two front faces has exactly one new side
\* face over it, owned by the cell of the front face processed first and with
\* the cell of the front face processed second as neighbour.
C1_OneSharedSideFace ==
  (LayerDone /\ FrontIsManifold) =>
    \A edge \in SharedEdges :
      LET first == CHOOSE k \in Sharers(edge) : \A j \in Sharers(edge) : k <= j
          second == CHOOSE k \in Sharers(edge) : \A j \in Sharers(edge) : k >= j
      IN /\ Cardinality(SideFacesOver(edge)) = 1
         /\ \A f \in SideFacesOver(edge) :
              /\ UgOf(f).owner = CellOf(first)
              /\ UgOf(f).neighbour = CellOf(second)
              /\ CellOf(first) # CellOf(second)

C1_Witness == LayerDone /\ FrontIsManifold /\ SharedEdges # {}

\* C2: after a layer (the inversion of the initial faces included), side faces
\* over shared edges and base faces that had an owner have owner and neighbour;
\* side faces over unshared edges, top faces and base faces that had no owner
\* have an owner and no neighbour; no face has a neighbour and no owner.
C2_OwnerNeighbour ==
  LayerDone =>
    /\ \A edge \in AllFrontEdges : \A f \in SideFacesOver(edge) :
         /\ UgOf(f).owner # None
         /\ (UgOf(f).neighbour # None) <=> IsShared(edge)
    /\ \A f \in TopFaces : UgOf(f).owner # None /\ UgOf(f).neighbour = None
    /\ \A k \in 1..NumFront :
         LET f == last.front[k]
         IN /\ UgOf(f).owner # None
            /\ (UgOf(f).neighbour # None) <=> (OwnerBefore(f) # None)
    /\ \A u \in 1..Len(ugfaces) :
         ~(ugfaces[u].neighbour # None /\ ugfaces[u].owner = None)

C2_Witness ==
  /\ LayerDone
  /\ SharedEdges # {}
  /\ AllFrontEdges # SharedEdges
  /\ \E k \in 1..NumFront : OwnerBefore(last.front[k]) = None

\* C3: a successful call on a front of F faces creates F cells, F top faces and
\* one side face per distinct front edge, and returns F.
C3_Counts ==
  LayerDone =>
    /\ Len(ugcells) = last.nc0 + NumFront
    /\ Cardinality(TopFaces) = NumFront
    /\ Cardinality(SideFaces) = Cardinality(AllFrontEdges)
    /\ last.ret = NumFront

C3_Witness == LayerDone /\ NumFront >= 2 /\ SharedEdges # {}

\* The calls of add_face_info on cell c in the last layer.
CallsOn(c) == {j \in 1..Len(last.calls) : last.calls[j][1] = c}

\* C4: at the end of a layer every new cell from an n-sided base face has had
\* n + 2 distinct faces registered (the side face of each base edge, the base
\* face, the top face), each once; a single quad front gives 1 cell of 6 faces.
C4_CellFaces ==
  LayerDone =>
    \A k \in 1..NumFront :
      LET c == CellOf(k)
          sides == UNION {SideFacesOver(edge) : edge \in FrontEdges(k)}
          top == {f \in TopFaces :
                    VertSet(f) = {last.vmap[v] : v \in SeqToSet(FrontLoop(k))}}
          reg == {last.calls[j][2] : j \in CallsOn(c)}
      IN /\ Cardinality(ugcells[c]) = Len(FrontLoop(k)) + 2
         /\ Cardinality(CallsOn(c)) = Len(FrontLoop(k)) + 2
         /\ reg = ugcells[c]
         /\ Cardinality(sides) = Len(FrontLoop(k))
         /\ Cardinality(top) = 1
         /\ {ugfaces[u].bi : u \in ugcells[c]} = sides \cup top \cup {last.front[k]}
         /\ (NumFront = 1 /\ Len(FrontLoop(k)) = 4) => Cardinality(ugcells[c]) = 6

C4_Witness ==
  /\ LayerDone
  /\ NumFront = 1
  /\ Len(FrontLoop(1)) = 4
  /\ Cardinality(ugcells[CellOf(1)]) = 6

\* The front is two quads with exactly one edge in common.
TwoQuadFront ==
  /\ NumFront = 2
  /\ Len(FrontLoop(1)) = 4
  /\ Len(FrontLoop(2)) = 4
  /\ Cardinality(FrontEdges(1) \cap FrontEdges(2)) = 1

InternalNewFaces == {f \in NewFaces : UgOf(f).neighbour # None}

\* An internal face between the two new cells, and the only one.
OneSharedInternalFace ==
  /\ Cardinality(InternalNewFaces) = 1
  /\ \A f \in InternalNewFaces :
       {UgOf(f).owner, UgOf(f).neighbour} = {CellOf(1), CellOf(2)}

\* C5 as stated: one layer from two quads sharing one edge creates 2 cells and
\* 7 faces in total, one of them the shared internal face.
C5_SevenFaces ==
  (LayerDone /\ TwoQuadFront) =>
    /\ Len(ugcells) = last.nc0 + 2
    /\ Cardinality(NewFaces) = 7
    /\ OneSharedInternalFace

\* C5 amended: one layer from two quads sharing one edge creates 2 cells and
\* 9 faces in total (7 side faces, 2 top faces), one of them the shared
\* internal face, whose owner and neighbour are the two new cells.
C5_NineFaces ==
  (LayerDone /\ TwoQuadFront) =>
    /\ Len(ugcells) = last.nc0 + 2
    /\ Cardinality(NewFaces) = 9
    /\ Cardinality(SideFaces) = 7
    /\ Cardinality(TopFaces) = 2
    /\ OneSharedInternalFace

C5_Witness == LayerDone /\ TwoQuadFront /\ Cardinality(InternalNewFaces) = 1

\* C6: a front vertex with no qualifying incident face makes the layer fail,
\* and the layer has created no mesh vertex, UGVertex, face or cell.
C6_DegenerateCreatesNothing ==
  (last.active /\ last.degen # {}) =>
    /\ last.raised
    /\ report = "exception"
    /\ pc = "idle"
    /\ Len(bm.verts) = last.nv0
    /\ Len(ugverts) = last.ugv0
    /\ Len(bm.faces) = last.nf0
    /\ Len(ugfaces) = Len(last.ugfaces0)
    /\ Len(ugcells) = last.nc0

\* A degenerate vertex that comes after a vertex with qualifying faces.
C6_Witness ==
  /\ last.active
  /\ \E a, b \in 1..Len(last.orig) :
       a < b /\ last.orig[a] \notin last.degen /\ last.orig[b] \in last.degen

\* The lookup of point_neighbour_cell_to_internal_face never fails: a call of
\* extrude_cells raises only on a degenerate vertex.
LookupNeverFails == (last.active /\ last.raised) => last.degen # {}

\* C8: a layer that produces no new cells ends the invocation with an error
\* report: no success report, no further layer.
C8_ZeroCellsFails ==
  (LayerDone /\ Len(ugcells) = last.nc0) =>
    /\ report = "ERROR: No object"
    /\ pc = "idle"

C8_Witness ==
  LayerDone /\ Len(ugcells) = last.nc0 /\ last.ret = 0 /\ report = "ERROR: No object"

\* C9: within an invocation the length of layer k+1 is the value of the
\* expression at the length of layer k if it evaluates to a number, else the
\* length of layer k; either way the layer's vertices, faces and cells are
\* created and the invocation goes on.  With x*2 from 1, three layers use 1, 2, 4.
C9_ThicknessSequence ==
  /\ \A k \in 1..(Len(lens) - 1) :
       lens[k + 1] = IF Eval(props.expr, lens[k]).ok
                     THEN Eval(props.expr, lens[k]).val
                     ELSE lens[k]
  /\ (LayerDone /\ NumFront > 0) =>
       /\ props.thickness = IF Eval(props.expr, last.len).ok
                            THEN Eval(props.expr, last.len).val
                            ELSE last.len
       /\ Len(bm.verts) = last.nv0 + Len(last.orig)
       /\ Len(ugverts) = last.ugv0 + Len(last.orig)
       /\ Len(ugcells) = last.nc0 + NumFront
       /\ Len(bm.faces) > last.nf0
       /\ \/ pc = "loop" /\ i = last.k
          \/ pc = "idle" /\ i = props.layers /\ report = "INFO: Extruded new cells"
  /\ (props.expr = "x*2" /\ Len(lens) = 3 /\ lens[1] = 1) => lens = <<1, 2, 4>>

C9_Witness == props.expr = "x*2" /\ lens = <<1, 2, 4>> /\ LayerDone /\ NumFront > 0

\* The direction of the vertex that vertex w descends from, steps layers back.
RECURSIVE AncestorDir(_, _)
AncestorDir(w, steps) ==
  IF steps = 0 THEN bm.verts[w].dir ELSE AncestorDir(bm.verts[w].base, steps - 1)

\* C10: the map a layer returns has the new vertices as keys, each with the
\* direction it was cast along; with fixed initial directions every front
\* vertex of a layer after the first has a prior entry and is cast along the
\* direction of its layer-1 ancestor; without, or in the first layer (empty
\* prior map), every vertex is cast along the fresh direction.
C10_DirectionMap ==
  LayerDone =>
    /\ DOMAIN vdir = NewVerts
    /\ \A w \in NewVerts : vdir[w] = bm.verts[w].dir
    /\ \A v \in SeqToSet(last.orig) : bm.verts[last.vmap[v]].base = v
    /\ (props.fixed /\ last.k >= 2) =>
         \A v \in SeqToSet(last.orig) :
           /\ v \in DOMAIN last.prior
           /\ bm.verts[last.vmap[v]].dir = AncestorDir(last.vmap[v], last.k - 1)
    /\ last.k = 1 => last.prior = EmptyMap
    /\ (~props.fixed \/ last.k = 1) =>
         \A v \in SeqToSet(last.orig) : bm.verts[last.vmap[v]].dir = last.fresh[v]

\* A later layer in which the fixed direction differs from the fresh one.
C10_Witness ==
  /\ LayerDone
  /\ props.fixed
  /\ last.k >= 2
  /\ \E v \in SeqToSet(last.orig) : bm.verts[last.vmap[v]].dir # last.fresh[v]

==========================================================================
